---- MODULE Spec2Model ----
(***************************************************************************)
(* The data-access layer of idiomapi (internal/repository, TodoRepository) *)
(* over the todos table of migrations/001_create_todos_table.sql, and the  *)
(* layers above it: TodoService, the handlers of internal/handler and the  *)
(* mapper of internal/dto.                                                 *)
(*                                                                         *)
(* Every SQL statement the repository sends is one atomic step of the      *)
(* store; a repository method that sends two statements (Update: SELECT    *)
(* then UPDATE, List: COUNT then SELECT) is two steps, and the statements  *)
(* of other callers may run in between.                                    *)
(*                                                                         *)
(* Spec       two callers of the repository, their statements interleaved  *)
(* ListSpec   List on every small table, with no write beside it           *)
(* PagingSpec List on tables whose rows differ in created_at, for pages up *)
(*            to the largest int                                           *)
(* MapperSpec dto.ToTodoListResponse on its arguments, in Go's int         *)
(* ApiSpec    the requests of one client through handler, service and      *)
(*            repository and GET /health, with cancellation of the         *)
(*            request context before and after the store has run the       *)
(*            statement                                                    *)
(***************************************************************************)
EXTENDS Integers, Sequences, FiniteSets, TLC

\* ---------------------------------------------------------------- bounds
MaxSeq == 2      \* rows the id sequence hands out
MaxClock == 2    \* readings of NOW()
MaxCalls == 3    \* repository calls started in one behaviour
MaxRows == 3     \* rows of a table that List reads at rest
IntBits == 16    \* width of Go's int, scaled down from 64

Procs == {"p1", "p2"}
UpdateTitles == {"b"}
UpdateDescriptions == {"d"}
Ids == 1 .. MaxSeq
PageArgs == {0, 2}
PageSizeArgs == {1, 2, 101}

\* A Go pointer argument: nil, or a pointer to a value.
Absent == <<>>
Present(v) == <<v>>
Opt(S) == {Absent} \cup {Present(v) : v \in S}

\* What the store does with one statement: it runs it, or it fails and the
\* table stays as it was.
StoreOutcomes == {"ok", "fail"}

VARIABLES
    todos,        \* the rows of table todos
    seq,          \* last value of the SERIAL sequence of todos.id
    clock,        \* NOW()
    pc,           \* per caller: "idle", "Update_exec" or "List_query"
    frame,        \* per caller: the live locals of its repository call
    resp,         \* what the last step returned to its caller, if it returned
    calls,        \* repository calls started so far
    everCreated,  \* history: the ids Create has returned
    deletedOk,    \* history: the ids for which Delete has returned nil
    overtaken     \* history: Lists in flight that a write has overtaken

vars == <<todos, seq, clock, pc, frame, resp, calls, everCreated, deletedOk,
          overtaken>>

\* ---------------------------------------------------------------- errors
ErrNotFound == <<"todo not found">>
PgxErrNoRows == <<"no rows in result set">>
StoreError == <<"store failure">>
ContextCanceled == <<"context canceled">>
NilErr == <<>>

\* fmt.Errorf("<msg>: %w", cause)
Wrap(msg, cause) == <<msg>> \o cause

\* errors.Is(err, target)
ErrorsIs(err, target) ==
    \E i \in 1 .. Len(err) : SubSeq(err, i, Len(err)) = target

\* The error pgx hands back for a statement the store did not run, or whose
\* result the caller did not wait for.
DriverErr(out) ==
    IF out \in {"canceled", "unacknowledged"} THEN ContextCanceled
    ELSE StoreError

\* The store has run the statement: the caller reads its result ("ok"), or
\* its context is cancelled while the result is on its way
\* ("unacknowledged"), and QueryRow(...).Scan or Exec returns the error.
Ran(out) == out \in {"ok", "unacknowledged"}

\* ---------------------------------------------------------------- table
NilTodo == <<>>

\* Faulty variant of NextId: SELECT MAX(id) + 1 in place of the sequence, which
\* hands the id of a deleted last row out again.
NextId_maxPlusOne(rows, last) ==
    IF rows = {} THEN 1
    ELSE (CHOOSE m \in {r.id : r \in rows} : \A r \in rows : r.id <= m) + 1

\* id SERIAL: the id of the next row is the next value of the sequence,
\* whatever rows the table holds.
NextId(rows, last) == last + 1

\* Faulty variant of InsertRow: completed left out of the INSERT, so that the
\* column takes its DEFAULT FALSE.
InsertRow_defaultCompleted(id, req, now) ==
    [id |-> id, title |-> req.title, description |-> req.description,
     completed |-> FALSE, created_at |-> now, updated_at |-> now]

\* DEFAULT NOW() of created_at and updated_at, id from the sequence.
InsertRow(id, req, now) ==
    [id |-> id, title |-> req.title, description |-> req.description,
     completed |-> req.completed, created_at |-> now, updated_at |-> now]

\* Faulty variant of the trigger function: it stamps the wrong column.
update_updated_at_column_createdAt(old, new, now) ==
    [new EXCEPT !.created_at = now]

\* Faulty variant of the trigger function: it stamps only a row whose columns
\* change (WHEN (OLD.* IS DISTINCT FROM NEW.*)).
update_updated_at_column_ifChanged(old, new, now) ==
    IF new = old THEN new ELSE [new EXCEPT !.updated_at = now]

\* BEFORE UPDATE ... FOR EACH ROW: NEW.updated_at = NOW()
update_updated_at_column(old, new, now) ==
    [new EXCEPT !.updated_at = now]

\* Faulty variant of SetColumns: every column is assigned, a nil field as the
\* zero value of its type.
SetColumns_zeroValues(row, req) ==
    [row EXCEPT
        !.title = IF req.title # Absent THEN req.title[1] ELSE "",
        !.description = IF req.description # Absent THEN req.description[1] ELSE "",
        !.completed = IF req.completed # Absent THEN req.completed[1] ELSE FALSE]

\* Faulty variant of SetColumns: SET col = COALESCE(col, $n), which keeps the
\* stored value of a column that has one.
SetColumns_keepStored(row, req) == row

\* Faulty variant of SetColumns: one UPDATE statement per field, of which the
\* first has run.
SetColumns_firstFieldOnly(row, req) ==
    IF req.title # Absent THEN [row EXCEPT !.title = req.title[1]]
    ELSE IF req.description # Absent
    THEN [row EXCEPT !.description = req.description[1]]
    ELSE IF req.completed # Absent
    THEN [row EXCEPT !.completed = req.completed[1]]
    ELSE row

\* The SET list Update builds: one assignment per non-nil field.
SetColumns(row, req) ==
    [row EXCEPT
        !.title = IF req.title # Absent THEN req.title[1] ELSE @,
        !.description = IF req.description # Absent THEN req.description[1] ELSE @,
        !.completed = IF req.completed # Absent THEN req.completed[1] ELSE @]

\* Faulty variant of NumUpdates: argPosition, which starts at 1, in place of
\* len(updates).
NumUpdates_argPosition(req) ==
    1 + (IF req.title # Absent THEN 1 ELSE 0)
      + (IF req.description # Absent THEN 1 ELSE 0)
      + (IF req.completed # Absent THEN 1 ELSE 0)

\* len(updates) of Update
NumUpdates(req) ==
    (IF req.title # Absent THEN 1 ELSE 0)
    + (IF req.description # Absent THEN 1 ELSE 0)
    + (IF req.completed # Absent THEN 1 ELSE 0)

\* SELECT ... FROM todos WHERE id = $1
SelectById(rows, id) == {r \in rows : r.id = id}

\* The row QueryRow(...).Scan reads out of a result that is not empty.
ScanRow(result) == CHOOSE r \in result : TRUE

\* UPDATE todos SET ... WHERE id = $n, with the trigger: the new table.
UpdateRows(rows, id, req, now) ==
    {IF r.id = id THEN update_updated_at_column(r, SetColumns(r, req), now)
                  ELSE r : r \in rows}

\* Faulty variant of DeleteRows: the statement matches the row and counts it
\* as affected, but leaves it in the table.
DeleteRows_rowStays(rows, id) == rows

\* DELETE FROM todos WHERE id = $1: the new table.
DeleteRows(rows, id) == {r \in rows : r.id # id}

\* ---------------------------------------------------------------- List
Min(a, b) == IF a < b THEN a ELSE b

\* Go's int, two's complement of IntBits bits (64 in the build, scaled down):
\* sums, differences and products wrap around.
MaxInt == 2 ^ (IntBits - 1) - 1
MinInt == -(2 ^ (IntBits - 1))
WrapInt(x) == ((x - MinInt) % (2 ^ IntBits)) + MinInt

\* List's coercion of page and pageSize.
MaxPageSize == 100
DefaultPageSize == 10
NormPage(page) == IF page < 1 THEN 1 ELSE page

\* Faulty variant of NormPageSize: a pageSize above the maximum is cut down to
\* the maximum.
NormPageSize_clamped(pageSize) ==
    IF pageSize < 1 THEN DefaultPageSize
    ELSE IF pageSize > MaxPageSize THEN MaxPageSize ELSE pageSize

NormPageSize(pageSize) ==
    IF pageSize < 1 \/ pageSize > MaxPageSize THEN DefaultPageSize ELSE pageSize

\* Faulty variant of Offset: page * pageSize, which skips the first page.
Offset_fromPage(page, pageSize) ==
    WrapInt(NormPage(page) * NormPageSize(pageSize))

\* offset := (page - 1) * pageSize, on the coerced values, in Go's int
Offset(page, pageSize) ==
    WrapInt((NormPage(page) - 1) * NormPageSize(pageSize))

\* WHERE completed = $1, or no WHERE clause when completed is nil
Matching(rows, completed) ==
    IF completed = Absent THEN rows
    ELSE {r \in rows : r.completed = completed[1]}

\* Faulty variant of CountRows: the count query without its WHERE clause.
CountRows_unfiltered(rows, completed) == Cardinality(rows)

\* SELECT COUNT(*) FROM todos [WHERE completed = $1]
CountRows(rows, completed) == Cardinality(Matching(rows, completed))

\* Faulty variant of OrderedByCreatedAtDesc: ORDER BY created_at ASC.
OrderedByCreatedAtDesc_ascending(rows) ==
    {s \in [1 .. Cardinality(rows) -> rows] :
        /\ \A i, j \in DOMAIN s : i < j => s[i] # s[j]
        /\ \A i, j \in DOMAIN s : i < j => s[i].created_at <= s[j].created_at}

\* ORDER BY created_at DESC: every order of the rows the clause allows (rows
\* with equal created_at come in any order).
OrderedByCreatedAtDesc(rows) ==
    {s \in [1 .. Cardinality(rows) -> rows] :
        /\ \A i, j \in DOMAIN s : i < j => s[i] # s[j]
        /\ \A i, j \in DOMAIN s : i < j => s[i].created_at >= s[j].created_at}

\* Faulty variant of LimitOffset: an offset past the end is pulled back to the
\* last row.
LimitOffset_pulledBack(s, limit, offset) ==
    IF offset >= Len(s) /\ Len(s) > 0 THEN <<s[Len(s)]>>
    ELSE SubSeq(s, offset + 1, Min(offset + limit, Len(s)))

\* LIMIT $n OFFSET $m of an ordered result
LimitOffset(s, limit, offset) == SubSeq(s, offset + 1, Min(offset + limit, Len(s)))

\* The results the list query of List can produce on table rows.
ListQueryResults(rows, completed, pageSize, offset) ==
    {LimitOffset(s, pageSize, offset) :
        s \in OrderedByCreatedAtDesc(Matching(rows, completed))}

\* The messages List wraps an error of its list query in: the query failed to
\* start, or the rows ended in an error.
ListQueryFailures == {"failed to list todos", "error iterating todos"}

\* ---------------------------------------------------------------- calls
IdleFrame == [op |-> "none"]

\* The last step returned nothing: it was no return of a repository call.
NoResp == [op |-> "none"]

\* dto.CreateTodoRequest: the two requests the callers send.
CreateRequests ==
    {[title |-> "a", description |-> "", completed |-> FALSE],
     [title |-> "b", description |-> "d", completed |-> TRUE]}

\* dto.UpdateTodoRequest: every field nil or a pointer to a value.
UpdateRequests ==
    [title : Opt(UpdateTitles), description : Opt(UpdateDescriptions),
     completed : Opt(BOOLEAN)]

\* The zero value of dto.UpdateTodoRequest: every field nil.
EmptyUpdateRequest ==
    [title |-> Absent, description |-> Absent, completed |-> Absent]

Init ==
    /\ todos = {}
    /\ seq = 0
    /\ clock = 1
    /\ pc = [p \in Procs |-> "idle"]
    /\ frame = [p \in Procs |-> IdleFrame]
    /\ resp = NoResp
    /\ calls = 0
    /\ everCreated = {}
    /\ deletedOk = {}
    /\ overtaken = {}

\* Callers are interchangeable (the repository keeps no state of its own): a
\* new call takes the first caller that has none in flight.
CanStart(p) ==
    /\ pc[p] = "idle"
    /\ calls < MaxCalls
    /\ p = "p2" => pc["p1"] # "idle"

\* A write to the table overtakes every List that is between its two statements.
Overtaken(p) == {q \in Procs \ {p} : pc[q] = "List_query"}

\* NOW() moves on.
Tick ==
    /\ clock < MaxClock
    /\ clock' = clock + 1
    /\ resp' = NoResp
    /\ UNCHANGED <<todos, seq, pc, frame, calls, everCreated, deletedOk,
                   overtaken>>

\* TodoRepository.Create
Create(p, req, out) ==
    /\ CanStart(p)
    /\ calls' = calls + 1
    /\ seq < MaxSeq
    /\ IF Ran(out)
       THEN LET row == InsertRow(NextId(todos, seq), req, clock) IN
            /\ seq' = seq + 1
            /\ todos' = todos \cup {row}
            /\ resp' = IF out = "ok"
                       THEN [op |-> "Create", todo |-> <<row>>, err |-> NilErr]
                       ELSE [op |-> "Create", todo |-> NilTodo,
                             err |-> Wrap("failed to create todo", DriverErr(out))]
            /\ everCreated' = everCreated \cup {row.id}
            /\ overtaken' = overtaken \cup Overtaken(p)
       ELSE /\ resp' = [op |-> "Create", todo |-> NilTodo,
                        err |-> Wrap("failed to create todo", DriverErr(out))]
            /\ UNCHANGED <<todos, seq, everCreated, overtaken>>
    /\ UNCHANGED <<clock, pc, frame, deletedOk>>

\* Faulty variant of GetByIDResult: pgx.ErrNoRows wrapped like every other
\* error of the query.
GetByIDResult_noRowsWrapped(rows, id, out) ==
    IF out # "ok"
    THEN [todo |-> NilTodo, err |-> Wrap("failed to get todo", DriverErr(out))]
    ELSE IF SelectById(rows, id) = {}
    THEN [todo |-> NilTodo, err |-> Wrap("failed to get todo", PgxErrNoRows)]
    ELSE [todo |-> <<ScanRow(SelectById(rows, id))>>, err |-> NilErr]

\* The (todo, err) pair of TodoRepository.GetByID on table rows.
GetByIDResult(rows, id, out) ==
    IF out # "ok"
    THEN [todo |-> NilTodo, err |-> Wrap("failed to get todo", DriverErr(out))]
    ELSE IF SelectById(rows, id) = {}
    THEN [todo |-> NilTodo, err |-> ErrNotFound]
    ELSE [todo |-> <<ScanRow(SelectById(rows, id))>>, err |-> NilErr]

\* TodoRepository.GetByID
GetByID(p, id, out) ==
    /\ CanStart(p)
    /\ calls' = calls + 1
    /\ LET got == GetByIDResult(todos, id, out) IN
       resp' = [op |-> "GetByID", id |-> id, todo |-> got.todo, err |-> got.err]
    /\ UNCHANGED <<todos, seq, clock, pc, frame, everCreated, deletedOk,
                   overtaken>>

\* TodoRepository.Delete
Delete(p, id, out) ==
    /\ CanStart(p)
    /\ calls' = calls + 1
    /\ IF ~Ran(out)
       THEN /\ resp' = [op |-> "Delete", id |-> id,
                        err |-> Wrap("failed to delete todo", DriverErr(out))]
            /\ UNCHANGED <<todos, deletedOk, overtaken>>
       ELSE IF out # "ok"
       THEN /\ todos' = DeleteRows(todos, id)
            /\ resp' = [op |-> "Delete", id |-> id,
                        err |-> Wrap("failed to delete todo", DriverErr(out))]
            /\ overtaken' = IF todos' # todos THEN overtaken \cup Overtaken(p)
                            ELSE overtaken
            /\ UNCHANGED deletedOk
       ELSE IF Cardinality(SelectById(todos, id)) = 0
       THEN /\ resp' = [op |-> "Delete", id |-> id, err |-> ErrNotFound]
            /\ UNCHANGED <<todos, deletedOk, overtaken>>
       ELSE /\ todos' = DeleteRows(todos, id)
            /\ resp' = [op |-> "Delete", id |-> id, err |-> NilErr]
            /\ deletedOk' = deletedOk \cup {id}
            /\ overtaken' = overtaken \cup Overtaken(p)
    /\ UNCHANGED <<seq, clock, pc, frame, everCreated>>

\* TodoRepository.Update up to the UPDATE statement: the existence read, the
\* SET list, and the early return when the request names no field.
UpdateRead(p, id, req, out) ==
    /\ CanStart(p)
    /\ calls' = calls + 1
    /\ LET got == GetByIDResult(todos, id, out) IN
       IF got.err # NilErr
       THEN /\ resp' = [op |-> "Update", id |-> id, todo |-> NilTodo, err |-> got.err]
            /\ UNCHANGED <<pc, frame>>
       ELSE IF NumUpdates(req) = 0
       THEN /\ resp' = [op |-> "Update", id |-> id, todo |-> got.todo, err |-> NilErr]
            /\ UNCHANGED <<pc, frame>>
       ELSE /\ pc' = [pc EXCEPT ![p] = "Update_exec"]
            /\ frame' = [frame EXCEPT ![p] = [op |-> "Update", id |-> id, req |-> req]]
            /\ resp' = NoResp
    /\ UNCHANGED <<todos, seq, clock, everCreated, deletedOk, overtaken>>

\* TodoRepository.Update: the UPDATE ... RETURNING statement and the return.
UpdateExec(p, out) ==
    /\ pc[p] = "Update_exec"
    /\ LET id == frame[p].id
           req == frame[p].req
           after == UpdateRows(todos, id, req, clock)
           returning == SelectById(after, id)
       IN
       IF ~Ran(out)
       THEN /\ resp' = [op |-> "Update", id |-> id, todo |-> NilTodo,
                        err |-> Wrap("failed to update todo", DriverErr(out))]
            /\ UNCHANGED <<todos, overtaken>>
       ELSE IF out # "ok"
       THEN /\ todos' = after
            /\ resp' = [op |-> "Update", id |-> id, todo |-> NilTodo,
                        err |-> Wrap("failed to update todo", DriverErr(out))]
            /\ overtaken' = IF returning # {} THEN overtaken \cup Overtaken(p)
                            ELSE overtaken
       ELSE IF returning = {}
       THEN /\ resp' = [op |-> "Update", id |-> id, todo |-> NilTodo,
                        err |-> Wrap("failed to update todo", PgxErrNoRows)]
            /\ UNCHANGED <<todos, overtaken>>
       ELSE /\ todos' = after
            /\ resp' = [op |-> "Update", id |-> id,
                        todo |-> <<ScanRow(returning)>>, err |-> NilErr]
            /\ overtaken' = (overtaken \cup Overtaken(p))
    /\ pc' = [pc EXCEPT ![p] = "idle"]
    /\ frame' = [frame EXCEPT ![p] = IdleFrame]
    /\ UNCHANGED <<seq, clock, calls, everCreated, deletedOk>>

\* TodoRepository.List up to the list query: the coercion, the offset and
\* the count query.
ListCount(p, page, pageSize, completed, out) ==
    /\ CanStart(p)
    /\ calls' = calls + 1
    /\ IF out # "ok"
       THEN /\ resp' = [op |-> "List", completed |-> completed,
                        todos |-> <<>>, total |-> 0,
                        err |-> Wrap("failed to count todos", DriverErr(out))]
            /\ UNCHANGED <<pc, frame>>
       ELSE /\ pc' = [pc EXCEPT ![p] = "List_query"]
            /\ frame' = [frame EXCEPT ![p] =
                            [op |-> "List", pageSize |-> NormPageSize(pageSize),
                             offset |-> Offset(page, pageSize),
                             completed |-> completed,
                             total |-> CountRows(todos, completed)]]
            /\ resp' = NoResp
    /\ overtaken' = overtaken \ {p}
    /\ UNCHANGED <<todos, seq, clock, everCreated, deletedOk>>

\* TodoRepository.List: the list query, the scan of its rows and the return.
ListQuery(p, out) ==
    /\ pc[p] = "List_query"
    /\ IF out # "ok" \/ frame[p].offset < 0
       THEN \E msg \in ListQueryFailures :
               resp' = [op |-> "List", completed |-> frame[p].completed,
                        todos |-> <<>>, total |-> 0,
                        err |-> Wrap(msg, DriverErr(out))]
       ELSE \E page \in ListQueryResults(todos, frame[p].completed,
                                         frame[p].pageSize, frame[p].offset) :
               resp' = [op |-> "List", completed |-> frame[p].completed,
                        todos |-> page, total |-> frame[p].total,
                        err |-> NilErr]
    /\ pc' = [pc EXCEPT ![p] = "idle"]
    /\ frame' = [frame EXCEPT ![p] = IdleFrame]
    /\ overtaken' = overtaken \ {p}
    /\ UNCHANGED <<todos, seq, clock, calls, everCreated, deletedOk>>

Next ==
    \/ Tick
    \/ \E p \in Procs, req \in CreateRequests, out \in StoreOutcomes :
          Create(p, req, out)
    \/ \E p \in Procs, id \in Ids, out \in StoreOutcomes : GetByID(p, id, out)
    \/ \E p \in Procs, id \in Ids, out \in StoreOutcomes : Delete(p, id, out)
    \/ \E p \in Procs, id \in Ids, req \in UpdateRequests, out \in StoreOutcomes :
          UpdateRead(p, id, req, out)
    \/ \E p \in Procs, out \in StoreOutcomes : UpdateExec(p, out)
    \/ \E p \in Procs, page \in PageArgs, pageSize \in PageSizeArgs,
          completed \in Opt(BOOLEAN), out \in StoreOutcomes :
          ListCount(p, page, pageSize, completed, out)
    \/ \E p \in Procs, out \in StoreOutcomes : ListQuery(p, out)

Spec == Init /\ [][Next]_vars

\* ------------------------------------------------- List on a table at rest
\* The tables List reads when no write runs beside it: every set of at most
\* MaxRows rows with ids of their own, created at any reading of NOW().
TableAtRest(f) ==
    {[id |-> i, title |-> "a", description |-> "", completed |-> f[i][1],
      created_at |-> f[i][2], updated_at |-> f[i][2]] :
        i \in {j \in DOMAIN f : f[j] # Absent}}

Tables ==
    {TableAtRest(f) :
        f \in [1 .. MaxRows -> {Absent} \cup (BOOLEAN \X (1 .. MaxClock))]}

\* ?page= and ?page_size= as callers send them: below, at and above the limits
\* of the coercion.
ListPageArgs == {-1, 0, 1, 2, 3}
ListPageSizeArgs == {-1, 0, 1, 2, 10, 101, 500}

\* The last call of a behaviour is a List, on any table.
ListInit ==
    /\ todos \in Tables
    /\ seq = MaxRows
    /\ clock = MaxClock
    /\ pc = [p \in Procs |-> "idle"]
    /\ frame = [p \in Procs |-> IdleFrame]
    /\ resp = NoResp
    /\ calls = MaxCalls - 1
    /\ everCreated = {r.id : r \in todos}
    /\ deletedOk = {}
    /\ overtaken = {}

ListNext ==
    \/ \E page \in ListPageArgs, pageSize \in ListPageSizeArgs,
          completed \in Opt(BOOLEAN), out \in StoreOutcomes :
          ListCount("p1", page, pageSize, completed, out)
    \/ \E out \in StoreOutcomes : ListQuery("p1", out)

ListSpec == ListInit /\ [][ListNext]_vars

\* ------------------------------------------------------- paging
\* A List on a table at rest with the pages a caller can ask for, up to the
\* largest int, and page sizes within the limits of the coercion.
PagingPageArgs == {1, 2, 3, 2 ^ (IntBits - 2) + 1, MaxInt}
PagingPageSizeArgs == {1, 2, 4, 100}

\* The tables of up to MaxRows rows that were created one after the other,
\* each at a time of its own.
PagingTables ==
    {TableAtRest(f) :
        f \in {g \in [1 .. MaxRows -> {Absent} \cup (BOOLEAN \X (1 .. MaxRows))] :
                  \A i, j \in 1 .. MaxRows :
                     (i # j /\ g[i] # Absent /\ g[j] # Absent) =>
                        g[i][2] # g[j][2]}}

PagingInit ==
    /\ todos \in PagingTables
    /\ seq = MaxRows
    /\ clock = MaxRows
    /\ pc = [p \in Procs |-> "idle"]
    /\ frame = [p \in Procs |-> IdleFrame]
    /\ resp = NoResp
    /\ calls = MaxCalls - 1
    /\ everCreated = {r.id : r \in todos}
    /\ deletedOk = {}
    /\ overtaken = {}

PagingNext ==
    \/ \E page \in PagingPageArgs, pageSize \in PagingPageSizeArgs,
          completed \in Opt(BOOLEAN), out \in StoreOutcomes :
          ListCount("p1", page, pageSize, completed, out)
    \/ \E out \in StoreOutcomes : ListQuery("p1", out)

PagingSpec == PagingInit /\ [][PagingNext]_vars

\* ------------------------------------------------------- dto mapper
Abs(x) == IF x < 0 THEN -x ELSE x

\* Go's a / b on ints, b # 0: the quotient truncated toward zero.
GoDiv(a, b) ==
    WrapInt(IF (a >= 0) = (b > 0) THEN Abs(a) \div Abs(b)
            ELSE -(Abs(a) \div Abs(b)))

\* Go's run-time panic of an integer division by zero.
DivideByZero == [panic |-> "integer divide by zero"]

\* dto.ToTodoResponse
ToTodoResponse(todo) ==
    [ID |-> todo.id, Title |-> todo.title, Description |-> todo.description,
     Completed |-> todo.completed, CreatedAt |-> todo.created_at,
     UpdatedAt |-> todo.updated_at]

\* dto.ToTodoResponseList
ToTodoResponseList(list) == [i \in 1 .. Len(list) |-> ToTodoResponse(list[i])]

\* totalPages of dto.ToTodoListResponse, pageSize # 0
TotalPages(total, pageSize) ==
    LET totalPages == GoDiv(WrapInt(WrapInt(total + pageSize) - 1), pageSize)
    IN IF totalPages = 0 THEN 1 ELSE totalPages

\* dto.ToTodoListResponse
ToTodoListResponse(list, total, page, pageSize) ==
    IF pageSize = 0 THEN DivideByZero
    ELSE [Todos |-> ToTodoResponseList(list), Total |-> total, Page |-> page,
          PageSize |-> pageSize, TotalPages |-> TotalPages(total, pageSize)]

\* The arguments ToTodoListResponse is called with: a page of rows, a count
\* of rows, and page and pageSize as the request carries them.
MapperLists ==
    {<<>>, <<InsertRow(1, [title |-> "a", description |-> "",
                           completed |-> FALSE], 1)>>}
MapperTotals == {0, 1, 2, 5, 10, 11}
MapperPages == {1, 2, 3}
MapperPageSizes == {-1, 0, 1, 2, 5, 10, MaxInt - 1, MaxInt}

MapperInit ==
    /\ todos = {}
    /\ seq = 0
    /\ clock = 1
    /\ pc = [p \in Procs |-> IF p = "p1" THEN "ToTodoListResponse" ELSE "idle"]
    /\ frame \in {[p \in Procs |-> IF p = "p1" THEN a ELSE IdleFrame] :
                     a \in [op : {"ToTodoListResponse"}, todos : MapperLists,
                            total : MapperTotals, page : MapperPages,
                            pageSize : MapperPageSizes]}
    /\ resp = NoResp
    /\ calls = 0
    /\ everCreated = {}
    /\ deletedOk = {}
    /\ overtaken = {}

\* The call of dto.ToTodoListResponse and its return (or panic).
MapList(p) ==
    /\ pc[p] = "ToTodoListResponse"
    /\ resp' = [op |-> "ToTodoListResponse", args |-> frame[p],
                response |-> ToTodoListResponse(frame[p].todos, frame[p].total,
                                                frame[p].page, frame[p].pageSize)]
    /\ pc' = [pc EXCEPT ![p] = "idle"]
    /\ frame' = [frame EXCEPT ![p] = IdleFrame]
    /\ UNCHANGED <<todos, seq, clock, calls, everCreated, deletedOk, overtaken>>

MapperNext == \E p \in Procs : MapList(p)

MapperSpec == MapperInit /\ [][MapperNext]_vars

\* ------------------------------------------------------- request binding
\* The strings of the requests, and the number of characters of each: "t255"
\* and "t256" stand for titles of 255 and 256 characters, "d1000" and "d1001"
\* for descriptions of 1000 and 1001.
StrLen(s) ==
    CASE s = "" -> 0
      [] s \in {"a", "b", "d"} -> 1
      [] s = "t255" -> 255
      [] s = "t256" -> 256
      [] s = "d1000" -> 1000
      [] s = "d1001" -> 1001

\* The limits of the binding tags of dto.CreateTodoRequest and
\* dto.UpdateTodoRequest.
TitleMin == 1
TitleMax == 255
DescriptionMax == 1000

\* A request body that is not the JSON of an object with fields of the types
\* of the request.
InvalidJson == [syntax |-> "invalid"]

\* One failure of the binding: the field and the tag that failed.
Failed(field, tag) == <<field, tag>>

\* The error of the JSON decoder.
SyntaxError == <<Failed("body", "json")>>

\* validator's min and max on a string: its number of characters.
MinMaxFailures(field, s, min, max) ==
    IF StrLen(s) < min THEN <<Failed(field, "min")>>
    ELSE IF StrLen(s) > max THEN <<Failed(field, "max")>>
    ELSE <<>>

\* json.Unmarshal into dto.CreateTodoRequest: a key that the body does not
\* have leaves the zero value of its field.
DecodeCreate(body) ==
    [title |-> IF body.title = Absent THEN "" ELSE body.title[1],
     description |-> IF body.description = Absent THEN ""
                     ELSE body.description[1],
     completed |-> IF body.completed = Absent THEN FALSE ELSE body.completed[1]]

\* The validation of dto.CreateTodoRequest: title required,min=1,max=255 and
\* description max=1000; the first tag that fails, for every field.
ValidateCreate(req) ==
    (IF req.title = "" THEN <<Failed("Title", "required")>>
     ELSE MinMaxFailures("Title", req.title, TitleMin, TitleMax))
    \o MinMaxFailures("Description", req.description, 0, DescriptionMax)

\* Faulty variant of ValidateUpdateField: omitempty leaves out a pointer to
\* the empty string as it leaves out the nil pointer.
ValidateUpdateField_omitsEmptyString(field, ptr, min, max) ==
    IF ptr = Absent \/ ptr = Present("") THEN <<>>
    ELSE MinMaxFailures(field, ptr[1], min, max)

\* omitempty,min=..,max=.. on a *string field: omitempty ends the validation
\* of a nil pointer; a pointer that is not nil has a value, whatever it points
\* to, and the tags after omitempty are checked on the string it points to.
ValidateUpdateField(field, ptr, min, max) ==
    IF ptr = Absent THEN <<>>
    ELSE MinMaxFailures(field, ptr[1], min, max)

\* The validation of dto.UpdateTodoRequest.
ValidateUpdate(req) ==
    ValidateUpdateField("Title", req.title, TitleMin, TitleMax)
    \o ValidateUpdateField("Description", req.description, 0, DescriptionMax)

\* c.ShouldBindJSON(&req) of CreateTodo: the request and a nil error, or the
\* error of the decoder or of the validator.
BindCreate(body) ==
    IF body = InvalidJson THEN [err |-> SyntaxError]
    ELSE IF ValidateCreate(DecodeCreate(body)) # <<>>
    THEN [err |-> ValidateCreate(DecodeCreate(body))]
    ELSE [err |-> NilErr, req |-> DecodeCreate(body)]

\* c.ShouldBindJSON(&req) of UpdateTodo; json.Unmarshal into
\* dto.UpdateTodoRequest leaves nil the pointer of a key the body does not
\* have.
BindUpdate(body) ==
    IF body = InvalidJson THEN [err |-> SyntaxError]
    ELSE IF ValidateUpdate(body) # <<>> THEN [err |-> ValidateUpdate(body)]
    ELSE [err |-> NilErr, req |-> body]

\* The integers whose decimal numerals the requests carry, and the numeral of
\* each.
Numerals == (-1 .. (MaxSeq + 1)) \cup {10, 100, 101}
Itoa == [i \in Numerals |-> ToString(i)]

\* Faulty variant of Atoi: C's atoi, which gives 0 for a string that is no
\* number.
Atoi_zeroOnError(s) ==
    IF \E i \in Numerals : Itoa[i] = s
    THEN [err |-> NilErr, val |-> CHOOSE i \in Numerals : Itoa[i] = s]
    ELSE [err |-> NilErr, val |-> 0]

\* strconv.Atoi on the decimal numerals of the small integers; every other
\* string is an error.
Atoi(s) ==
    IF \E i \in Numerals : Itoa[i] = s
    THEN [err |-> NilErr, val |-> CHOOSE i \in Numerals : Itoa[i] = s]
    ELSE [err |-> <<"invalid syntax">>]

\* ------------------------------------------------------- service
\* Faulty variant of ServiceReturn: the service wraps the error of the
\* repository in a message of its own.
ServiceReturn_wrapsError(ret) ==
    IF ret.err = NilErr THEN ret
    ELSE [ret EXCEPT !.err = Wrap("service failed", ret.err)]

\* TodoService: every method calls its repository method once and returns
\* what that returned; with an error, it returns the zero results and the
\* error as it is.
ServiceReturn(ret) ==
    IF ret.err = NilErr THEN ret
    ELSE IF ret.op = "List" THEN [ret EXCEPT !.todos = <<>>, !.total = 0]
    ELSE IF ret.op = "Delete" THEN ret
    ELSE [ret EXCEPT !.todo = NilTodo]

\* ------------------------------------------------------- handlers
StatusOK == 200
StatusCreated == 201
StatusNoContent == 204
StatusBadRequest == 400
StatusNotFound == 404
StatusInternalServerError == 500
StatusServiceUnavailable == 503

\* The repository method behind each handler.
Handlers ==
    [Create |-> "CreateTodo", GetByID |-> "GetTodo", List |-> "ListTodos",
     Update |-> "UpdateTodo", Delete |-> "DeleteTodo"]

\* The last step was the return of a repository call, and its handler has
\* not answered yet.
Pending == resp.op \in DOMAIN Handlers

\* c.JSON(status, model.ErrorResponse{Error: ..., Message: ...})
ErrorResponse(handler, status, error, message) ==
    [op |-> "http", handler |-> handler, status |-> status,
     body |-> [error |-> error, message |-> message]]

\* What a handler answers when its request does not bind or its id does not
\* parse.
ValidationError(handler, err) ==
    ErrorResponse(handler, StatusBadRequest, "validation_error", err)
InvalidId(handler) ==
    ErrorResponse(handler, StatusBadRequest, "invalid_id", "Invalid todo ID")

\* The status a handler answers with when its service call returns no error.
SuccessStatus(handler) ==
    CASE handler = "CreateTodo" -> StatusCreated
      [] handler = "DeleteTodo" -> StatusNoContent
      [] OTHER -> StatusOK

\* The message of the 500 of each handler.
FailureMessage(handler) ==
    CASE handler = "CreateTodo" -> "Failed to create todo"
      [] handler = "GetTodo" -> "Failed to get todo"
      [] handler = "ListTodos" -> "Failed to list todos"
      [] handler = "UpdateTodo" -> "Failed to update todo"
      [] handler = "DeleteTodo" -> "Failed to delete todo"

\* Faulty variant of ChecksNotFound: DeleteTodo without its errors.Is test.
ChecksNotFound_notInDelete(handler) == handler \in {"GetTodo", "UpdateTodo"}

\* The handlers that test the error of their service call with
\* errors.Is(err, repository.ErrNotFound).
ChecksNotFound(handler) == handler \in {"GetTodo", "UpdateTodo", "DeleteTodo"}

\* What a handler answers after its service call has returned ret.
Answer(handler, ret) ==
    IF ret.err # NilErr
    THEN IF ChecksNotFound(handler) /\ ErrorsIs(ret.err, ErrNotFound)
         THEN ErrorResponse(handler, StatusNotFound, "not_found", "Todo not found")
         ELSE ErrorResponse(handler, StatusInternalServerError,
                            "internal_error", FailureMessage(handler))
    ELSE [op |-> "http", handler |-> handler, status |-> SuccessStatus(handler),
          body |-> CASE ret.op = "Delete" -> <<>>
                     [] ret.op = "List" -> [todos |-> ret.todos, total |-> ret.total]
                     [] OTHER -> ret.todo[1]]

\* The requests of the clients: bodies, path parameters and query strings,
\* well-formed and not.
NoBody == [title |-> Absent, description |-> Absent, completed |-> Absent]
CreateBodies ==
    {InvalidJson, NoBody,
     [NoBody EXCEPT !.title = Present("")],
     [NoBody EXCEPT !.title = Present("a")],
     [NoBody EXCEPT !.title = Present("t256")],
     [NoBody EXCEPT !.title = Present("a"), !.description = Present("d1001")],
     [title |-> Present("t255"), description |-> Present("d1000"),
      completed |-> Present(TRUE)]}
UpdateBodies ==
    {InvalidJson, NoBody,
     [NoBody EXCEPT !.title = Present("")],
     [NoBody EXCEPT !.title = Present("t256")],
     [NoBody EXCEPT !.description = Present("d1001")],
     [NoBody EXCEPT !.title = Present("b"), !.description = Present("")],
     [NoBody EXCEPT !.completed = Present(TRUE)]}
IdParams == {ToString(i) : i \in Ids} \cup {"x"}
PageQueries == Opt({"2", "x"})
PageSizeQueries == Opt({"1"})
CompletedQueries == Opt({"", "true", "false", "1", "TRUE", "yes"})

\* What the store or the caller does with one statement of a request: as
\* StoreOutcomes, or the client goes away and gin cancels the request's
\* context while the statement is in flight: before the store has run it
\* ("canceled") or after ("unacknowledged").
ApiOutcomes == StoreOutcomes \cup {"canceled", "unacknowledged"}

\* c.DefaultQuery(key, default) and c.Query(key)
DefaultQuery(q, default) == IF q = Absent THEN default ELSE q[1]
Query(q) == DefaultQuery(q, "")

\* The page (or the pageSize) of ListTodos: the number of the query string,
\* or the default when there is none or it is no number.
IntQuery(q, default) ==
    LET str == DefaultQuery(q, ToString(default))
    IN IF str # "" /\ Atoi(str).err = NilErr THEN Atoi(str).val ELSE default

\* Faulty variant of CompletedFilter: strconv.ParseBool, with no filter for a
\* string that is no boolean.
CompletedFilter_parseBool(q) ==
    IF Query(q) \in {"true", "TRUE", "1"} THEN Present(TRUE)
    ELSE IF Query(q) = "false" THEN Present(FALSE)
    ELSE Absent

\* The filter of ListTodos: nil without ?completed=, else a pointer to whether
\* the string is "true".
CompletedFilter(q) == IF Query(q) # "" THEN Present(Query(q) = "true") ELSE Absent

\* The requests of one client, one after the other: the handler runs on the
\* goroutine of its request up to the return of its repository call, and
\* then answers.
Answers(response) ==
    /\ pc["p1"] = "idle"
    /\ ~Pending
    /\ resp' = response
    /\ UNCHANGED <<todos, seq, clock, pc, frame, calls, everCreated, deletedOk,
                   overtaken>>

\* TodoHandler.CreateTodo up to the return of the repository
CreateTodo(body, out) ==
    /\ ~Pending
    /\ IF BindCreate(body).err # NilErr
       THEN Answers(ValidationError("CreateTodo", BindCreate(body).err))
       ELSE Create("p1", BindCreate(body).req, out)

\* TodoHandler.GetTodo up to the return of the repository
GetTodo(param, out) ==
    /\ ~Pending
    /\ IF Atoi(param).err # NilErr THEN Answers(InvalidId("GetTodo"))
       ELSE GetByID("p1", Atoi(param).val, out)

\* TodoHandler.ListTodos up to the count query of the repository
ListTodos(pageQ, pageSizeQ, completedQ, out) ==
    /\ ~Pending
    /\ ListCount("p1", IntQuery(pageQ, 1), IntQuery(pageSizeQ, DefaultPageSize),
                 CompletedFilter(completedQ), out)

\* TodoHandler.UpdateTodo up to the existence read of the repository
UpdateTodo(param, body, out) ==
    /\ ~Pending
    /\ IF Atoi(param).err # NilErr THEN Answers(InvalidId("UpdateTodo"))
       ELSE IF BindUpdate(body).err # NilErr
       THEN Answers(ValidationError("UpdateTodo", BindUpdate(body).err))
       ELSE UpdateRead("p1", Atoi(param).val, BindUpdate(body).req, out)

\* TodoHandler.DeleteTodo up to the return of the repository
DeleteTodo(param, out) ==
    /\ ~Pending
    /\ IF Atoi(param).err # NilErr THEN Answers(InvalidId("DeleteTodo"))
       ELSE Delete("p1", Atoi(param).val, out)

\* The second statement of the repository call of UpdateTodo or ListTodos.
SecondStatement(out) ==
    /\ ~Pending
    /\ \/ UpdateExec("p1", out)
       \/ ListQuery("p1", out)

\* Database.Health: the ping of the pool, which returns the driver's error.
DatabaseHealth(out) == IF out = "ok" THEN NilErr ELSE DriverErr(out)

\* A health handler that reports the database's state with status "ok".
HealthResponse_alwaysOk(err) ==
    [op |-> "http", handler |-> "Health",
     status |-> IF err # NilErr THEN StatusServiceUnavailable ELSE StatusOK,
     body |-> [status |-> "ok",
               database |-> IF err # NilErr THEN "error" ELSE "ok"]]

\* c.JSON(statusCode, HealthResponse{Status: status, Database: dbStatus})
HealthResponse(err) ==
    LET dbStatus == IF err # NilErr THEN "error" ELSE "ok" IN
    [op |-> "http", handler |-> "Health",
     status |-> IF dbStatus # "ok" THEN StatusServiceUnavailable ELSE StatusOK,
     body |-> [status |-> IF dbStatus # "ok" THEN "degraded" ELSE "ok",
               database |-> dbStatus]]

\* HealthHandler.Health: GET /health
Health(out) == Answers(HealthResponse(DatabaseHealth(out)))

\* The handler answers with the return of its service call.
Respond ==
    /\ Pending
    /\ resp' = Answer(Handlers[resp.op], ServiceReturn(resp))
    /\ UNCHANGED <<todos, seq, clock, pc, frame, calls, everCreated, deletedOk,
                   overtaken>>

ApiNext ==
    \/ ~Pending /\ Tick
    \/ \E body \in CreateBodies, out \in ApiOutcomes : CreateTodo(body, out)
    \/ \E param \in IdParams, out \in ApiOutcomes : GetTodo(param, out)
    \/ \E pageQ \in PageQueries, pageSizeQ \in PageSizeQueries,
          completedQ \in CompletedQueries, out \in ApiOutcomes :
          ListTodos(pageQ, pageSizeQ, completedQ, out)
    \/ \E param \in IdParams, body \in UpdateBodies, out \in ApiOutcomes :
          UpdateTodo(param, body, out)
    \/ \E param \in IdParams, out \in ApiOutcomes : DeleteTodo(param, out)
    \/ \E out \in ApiOutcomes : SecondStatement(out)
    \/ Respond
    \/ \E out \in ApiOutcomes : Health(out)

ApiSpec == Init /\ [][ApiNext]_vars

\* ------------------------------------------------------------ properties

\* The rows of the table other than the row of id.
OtherRows(rows, id) == {r \in rows : r.id # id}

\* C1: a successful Update that supplies at least one field leaves, stored and
\* returned, one row of that id in which every supplied field has the supplied
\* value, while id, created_at and every field not supplied are as they were
\* in the row right before the UPDATE statement; no other row changes.
C1_PartialUpdateFrame ==
    [][\A p \in Procs :
          (UpdateExec(p, "ok") /\ resp'.err = NilErr) =>
             LET id == frame[p].id
                 req == frame[p].req
                 old == ScanRow(SelectById(todos, id))
                 new == resp'.todo[1]
             IN /\ NumUpdates(req) > 0
                /\ SelectById(todos', id) = {new}
                /\ new.title = (IF req.title # Absent THEN req.title[1] ELSE old.title)
                /\ new.description =
                      (IF req.description # Absent THEN req.description[1]
                                                   ELSE old.description)
                /\ new.completed =
                      (IF req.completed # Absent THEN req.completed[1]
                                                 ELSE old.completed)
                /\ new.id = old.id
                /\ new.created_at = old.created_at
                /\ OtherRows(todos', id) = OtherRows(todos, id)]_vars

\* A Create of ("a", "", FALSE) followed by an Update that supplied the title
\* and not the description has returned.
C1_Witness ==
    /\ calls = 2
    /\ resp.op = "Update"
    /\ resp.err = NilErr
    /\ resp.todo[1] \in todos
    /\ resp.todo[1].title = "b"
    /\ resp.todo[1].description = ""
    /\ resp.todo[1].updated_at > resp.todo[1].created_at

\* C2: an Update with no field supplied, on a row that exists, returns in its
\* first step with the row as read, and the table is after the step what it
\* was before it (updated_at included).
C2_EmptyUpdateNoWrite ==
    [][\A p \in Procs, id \in Ids :
          (/\ calls' = calls + 1
           /\ SelectById(todos, id) # {}
           /\ UpdateRead(p, id, EmptyUpdateRequest, "ok")) =>
             /\ pc'[p] = "idle"
             /\ resp'.op = "Update"
             /\ resp'.err = NilErr
             /\ resp'.todo = <<ScanRow(SelectById(todos, id))>>
             /\ todos' = todos]_vars

\* An Update has just returned a row without error whose updated_at is older
\* than NOW(): the row was not written by that Update.
C2_Witness ==
    /\ calls = 2
    /\ resp.op = "Update"
    /\ resp.err = NilErr
    /\ resp.todo[1] \in todos
    /\ resp.todo[1].updated_at < clock

\* The step is the first step of an Update of id by caller p: the Update has
\* returned, or it is before its UPDATE statement.
UpdateStarted(p, id) ==
    /\ calls' = calls + 1
    /\ \/ resp'.op = "Update" /\ resp'.id = id
       \/ pc'[p] = "Update_exec" /\ frame'[p].id = id

\* C3: for an id that no row of the table has, GetByID, Update (with any
\* request) and Delete, when the store runs their statement, return
\* ErrNotFound itself at once and leave the table as it was.
C3_AbsentIdNotFound ==
    [][\A p \in Procs, id \in Ids :
          (calls' = calls + 1 /\ SelectById(todos, id) = {}) =>
             /\ (resp'.op = "GetByID" /\ GetByID(p, id, "ok")) =>
                   resp'.err = ErrNotFound /\ todos' = todos
             /\ (resp'.op = "Delete" /\ Delete(p, id, "ok")) =>
                   resp'.err = ErrNotFound /\ todos' = todos
             /\ UpdateStarted(p, id) =>
                   \/ /\ resp'.op = "Update"
                      /\ resp'.err = ErrNotFound
                      /\ pc'[p] = "idle"
                      /\ todos' = todos
                   \/ \A req \in UpdateRequests : ~UpdateRead(p, id, req, "ok")]_vars

\* An Update of an id that the table does not hold has returned ErrNotFound.
C3_Witness ==
    /\ resp.op = "Update"
    /\ resp.err = ErrNotFound
    /\ SelectById(todos, resp.id) = {}

\* C4: an Update that supplies a field and whose row has been deleted between
\* its existence read and its UPDATE statement fails with ErrNotFound
\* (errors.Is(err, ErrNotFound)), the store having run the statement.
C4_UpdateOfDeletedRowNotFound ==
    [][\A p \in Procs :
          (UpdateExec(p, "ok") /\ SelectById(todos, frame[p].id) = {}) =>
             ErrorsIs(resp'.err, ErrNotFound)]_vars

\* C5: an id for which Delete has returned nil is in no row of the table ever
\* after, and every GetByID, Update and Delete of it that starts later, and
\* whose statement the store runs, returns ErrNotFound.
C5_DeletedStaysNotFound ==
    [][/\ \A id \in deletedOk' : SelectById(todos', id) = {}
       /\ \A p \in Procs, id \in deletedOk :
             calls' = calls + 1 =>
                /\ (resp'.op = "GetByID" /\ GetByID(p, id, "ok")) =>
                      resp'.err = ErrNotFound
                /\ (resp'.op = "Delete" /\ Delete(p, id, "ok")) =>
                      resp'.err = ErrNotFound
                /\ UpdateStarted(p, id) =>
                      \/ resp'.op = "Update" /\ resp'.err = ErrNotFound
                      \/ \A req \in UpdateRequests : ~UpdateRead(p, id, req, "ok")]_vars

\* After a Create and a successful Delete of its row, a GetByID of the
\* deleted id has returned ErrNotFound.
C5_Witness ==
    /\ resp.op = "GetByID"
    /\ resp.err = ErrNotFound
    /\ resp.id \in deletedOk
    /\ resp.id \in everCreated

\* C6: a successful Create adds exactly one row to the table, keeps every
\* other row, and the id of the new row is the id of no row Create has
\* returned before, deleted since or not.
C6_CreateFreshId ==
    [][\A p \in Procs, req \in CreateRequests :
          Create(p, req, "ok") =>
             /\ resp'.err = NilErr
             /\ resp'.todo[1].id \notin everCreated
             /\ resp'.todo[1].id \notin {r.id : r \in todos}
             /\ todos' = todos \cup {resp'.todo[1]}
             /\ Cardinality(todos') = Cardinality(todos) + 1]_vars

\* A Create has returned after an earlier Create (with the same request) and a
\* successful Delete of the earlier row.
C6_Witness ==
    /\ resp.op = "Create"
    /\ resp.err = NilErr
    /\ Cardinality(everCreated) = 2
    /\ deletedOk # {}
    /\ todos = {resp.todo[1]}
    /\ resp.todo[1].title = "a"

\* C7: a successful Create returns the row it has stored: title, description
\* and completed are the request's, and created_at equals updated_at.
C7_CreateReturnsPersisted ==
    [][\A p \in Procs, req \in CreateRequests :
          Create(p, req, "ok") =>
             /\ resp'.err = NilErr
             /\ resp'.todo[1] \in todos'
             /\ resp'.todo[1].title = req.title
             /\ resp'.todo[1].description = req.description
             /\ resp'.todo[1].completed = req.completed
             /\ resp'.todo[1].created_at = resp'.todo[1].updated_at]_vars

\* A Create of ("b", "d", TRUE) has returned its row.
C7_Witness ==
    /\ resp.op = "Create"
    /\ resp.err = NilErr
    /\ resp.todo[1] \in todos
    /\ resp.todo[1].completed = TRUE
    /\ resp.todo[1].description = "d"

\* C8: every row of the table has updated_at >= created_at.
C8_UpdatedNotBeforeCreated ==
    \A r \in todos : r.updated_at >= r.created_at

\* A row has been updated at a later reading of NOW() than it was created at.
C8_Witness ==
    \E r \in todos : r.updated_at > r.created_at

\* C9: a successful Update that supplies a field sets updated_at to NOW() of
\* its UPDATE statement, equal values or not: never earlier than the
\* updated_at before, and later when NOW() has moved on since.
C9_UpdateRefreshesUpdatedAt ==
    [][\A p \in Procs :
          (UpdateExec(p, "ok") /\ resp'.err = NilErr) =>
             LET old == ScanRow(SelectById(todos, frame[p].id))
                 new == ScanRow(SelectById(todos', frame[p].id))
             IN /\ new.updated_at = clock
                /\ resp'.todo[1].updated_at = clock
                /\ new.updated_at >= old.updated_at
                /\ (clock > old.updated_at => new.updated_at > old.updated_at)]_vars

\* A Create of ("b", "d", TRUE) followed, NOW() having moved on, by an Update
\* that supplied only values the row already had, has returned.
C9_Witness ==
    /\ calls = 2
    /\ resp.op = "Update"
    /\ resp.err = NilErr
    /\ resp.todo[1].title = "b"
    /\ resp.todo[1].description = "d"
    /\ resp.todo[1].completed = TRUE
    /\ resp.todo[1].updated_at > resp.todo[1].created_at

\* C10: a List that no write has overtaken between its two statements returns,
\* with a filter, only rows whose completed is the filter's, and as total the
\* number of rows of the table that match the filter (of all rows without
\* one), whatever page and pageSize are.
C10_ListFilterAndTotal ==
    [][\A p \in Procs :
          (ListQuery(p, "ok") /\ p \notin overtaken) =>
             LET f == frame[p].completed IN
             /\ resp'.err = NilErr
             /\ \A i \in 1 .. Len(resp'.todos) :
                   /\ resp'.todos[i] \in todos
                   /\ f # Absent => resp'.todos[i].completed = f[1]
             /\ resp'.total =
                   (IF f = Absent THEN Cardinality(todos)
                    ELSE Cardinality({r \in todos : r.completed = f[1]}))]_vars

\* Two Creates, then a List with the filter TRUE that returned the one row
\* that is completed, and 1 as total.
C10_Witness ==
    /\ calls = 3
    /\ resp.op = "List"
    /\ resp.err = NilErr
    /\ resp.completed = Present(TRUE)
    /\ Cardinality(todos) = 2
    /\ resp.total = 1
    /\ Len(resp.todos) = 1
    /\ resp.todos[1].completed = TRUE

\* The page and the pageSize that the contract of List puts in the place of
\* the ones it is called with.
CoercedPage(page) == IF page >= 1 THEN page ELSE 1
CoercedPageSize(pageSize) ==
    IF pageSize >= 1 /\ pageSize <= 100 THEN pageSize ELSE 10

\* C11: whatever page and pageSize List is called with, the call goes on to
\* its list query exactly as the call with the coerced page (1 for a page
\* below 1) and the coerced pageSize (10 for a pageSize outside 1 .. 100) does:
\* same limit, same offset, same filter, same total, hence same records. In
\* particular List(0, 500, f) is List(1, 10, f).
C11_ListCoercesArguments ==
    [][\A f \in Opt(BOOLEAN) :
          (pc'["p1"] = "List_query" /\ frame'["p1"].completed = f) =>
             /\ \A page \in ListPageArgs, pageSize \in ListPageSizeArgs :
                   ListCount("p1", page, pageSize, f, "ok") <=>
                      ListCount("p1", CoercedPage(page),
                                CoercedPageSize(pageSize), f, "ok")
             /\ ListCount("p1", 0, 500, f, "ok") <=>
                   ListCount("p1", 1, 10, f, "ok")
             /\ ListCount("p1", 0, 500, f, "ok") =>
                   /\ frame'["p1"].pageSize = 10
                   /\ frame'["p1"].offset = 0]_vars

\* A List that was called with pageSize 500 (or another one that is coerced to
\* 10) on a table of three rows has returned the three of them.
C11_Witness ==
    /\ resp.op = "List"
    /\ resp.err = NilErr
    /\ Cardinality(todos) = 3
    /\ Len(resp.todos) = 3

\* The rows of the table that a filter lets through.
FilteredRows(f) == IF f = Absent THEN todos ELSE {r \in todos : r.completed = f[1]}

\* Row r can stand at position k of a listing of rows by created_at, newest
\* first: fewer than k rows are newer, and at least k are as new or newer.
CanStandAt(r, k, rows) ==
    /\ Cardinality({x \in rows : x.created_at > r.created_at}) < k
    /\ Cardinality({x \in rows : x.created_at >= r.created_at}) >= k

Ceiling(total, pageSize) ==
    CHOOSE k \in 0 .. total : k * pageSize >= total /\ (k - 1) * pageSize < total

\* C14: for total >= 1 and pageSize >= 1 the response of ToTodoListResponse
\* has TotalPages = ceil(total / pageSize), for total = 0 it has
\* TotalPages = 1, and its Total, Page and PageSize are the arguments.
C14_TotalPagesIsCeiling ==
    (resp.op = "ToTodoListResponse" /\ resp.args.pageSize >= 1) =>
       /\ resp.response.Total = resp.args.total
       /\ resp.response.Page = resp.args.page
       /\ resp.response.PageSize = resp.args.pageSize
       /\ resp.args.total >= 1 =>
             resp.response.TotalPages =
                Ceiling(resp.args.total, resp.args.pageSize)
       /\ resp.args.total = 0 => resp.response.TotalPages = 1

\* C14, away from the ends of int: the same, for the calls in which
\* total + pageSize - 1 is an int.
C14_TotalPagesIsCeilingWithinInt ==
    (resp.op = "ToTodoListResponse" /\ resp.args.pageSize >= 1
        /\ resp.args.total + resp.args.pageSize - 1 <= MaxInt) =>
       C14_TotalPagesIsCeiling

\* C15: of the Deletes of one id, whichever callers send them and in whatever
\* order the store runs their statements, the first that finds the row
\* succeeds and removes that row and no other, and no Delete succeeds for an
\* id that a Delete has removed before: each of those returns ErrNotFound
\* and leaves the table as it is (ids are never handed out again, so no
\* Create comes in between).
C15_OneDeleteWins ==
    [][\A p \in Procs, id \in Ids :
          (resp'.op = "Delete" /\ Delete(p, id, "ok")) =>
             IF \E r \in todos : r.id = id
             THEN /\ resp'.err = NilErr
                  /\ id \notin deletedOk
                  /\ todos' = {r \in todos : r.id # id}
                  /\ Cardinality(todos') = Cardinality(todos) - 1
             ELSE /\ resp'.err = ErrNotFound
                  /\ todos' = todos]_vars

\* One Create and two Deletes of its id: the second has returned ErrNotFound.
C15_Witness ==
    /\ calls = 3
    /\ resp.op = "Delete"
    /\ resp.err = ErrNotFound
    /\ resp.id \in deletedOk
    /\ todos = {}

\* C16: an Update whose UPDATE statement the store runs on a row that exists
\* succeeds and leaves every field it supplies at the value it supplies,
\* whatever the row holds by then: also when another Update of the same id,
\* supplying another value for the same field, has read the row too and has
\* its own statement still to come or already applied. So of two such Updates
\* both succeed, and the row ends with the value of the statement that ran
\* last; the repository compares no version and rejects neither.
C16_LastUpdateWins ==
    [][\A p \in Procs :
          (UpdateExec(p, "ok") /\ SelectById(todos, frame[p].id) # {}) =>
             LET req == frame[p].req
                 new == ScanRow(SelectById(todos', frame[p].id))
             IN /\ resp'.err = NilErr
                /\ resp'.todo = <<new>>
                /\ \A c \in {"title", "description", "completed"} :
                      req[c] # Absent => new[c] = req[c][1]
                /\ \A q \in Procs \ {p} :
                      pc[q] = "Update_exec" =>
                         /\ pc'[q] = "Update_exec"
                         /\ frame'[q] = frame[q]]_vars

\* Two Updates of the row of one Create were in flight together, one with
\* completed = TRUE and one with completed = FALSE. The first has applied
\* TRUE and returned; the other has its statement still to come.
C16_Witness ==
    /\ calls = 3
    /\ pc["p1"] = "idle"
    /\ pc["p2"] = "Update_exec"
    /\ resp.op = "Update"
    /\ resp.err = NilErr
    /\ resp.id = frame["p2"].id
    /\ resp.todo[1].completed = TRUE
    /\ resp.todo[1].title = "a"
    /\ frame["p2"].req.completed = Present(FALSE)
    /\ SelectById(todos, resp.id) = {resp.todo[1]}

\* C17: GetByID and List return rows as the table holds them when their
\* statement runs, and a row of the table changes only in the one step of an
\* Update's statement, to a row that has every supplied field at its supplied
\* value, every other field but updated_at as before, and updated_at at NOW().
\* So no reader, whenever its statement runs, gets a row with some of the
\* supplied fields new and others old, or with the new fields and the
\* updated_at of before the statement.
C17_UpdateIsOneStep ==
    [][/\ \A p \in Procs, id \in Ids :
             (resp'.op = "GetByID" /\ resp'.err = NilErr /\ GetByID(p, id, "ok"))
                => resp'.todo[1] \in todos
       /\ \A p \in Procs :
             ListQuery(p, "ok") =>
                \A i \in 1 .. Len(resp'.todos) : resp'.todos[i] \in todos
       /\ \A old \in todos, new \in todos' :
             (old.id = new.id /\ old # new) =>
                \E p \in Procs :
                   /\ UpdateExec(p, "ok")
                   /\ frame[p].id = old.id
                   /\ NumUpdates(frame[p].req) > 0
                   /\ \A c \in {"title", "description", "completed"} :
                         new[c] = IF frame[p].req[c] # Absent
                                  THEN frame[p].req[c][1] ELSE old[c]
                   /\ new.created_at = old.created_at
                   /\ new.updated_at = clock]_vars

\* A List with the filter TRUE counted no row, then an Update with title "b"
\* and completed TRUE of the one row of the table ran its statement, then the
\* list query of that List has returned the row: with both fields new and
\* updated_at at the NOW() of the UPDATE.
C17_Witness ==
    /\ calls = 3
    /\ resp.op = "List"
    /\ resp.err = NilErr
    /\ resp.total = 0
    /\ Len(resp.todos) = 1
    /\ resp.todos[1].title = "b"
    /\ resp.todos[1].description = ""
    /\ resp.todos[1].completed = TRUE
    /\ resp.todos[1].updated_at = clock
    /\ resp.todos[1].created_at < clock
    /\ todos = {resp.todos[1]}

\* C18: a handler answers the return of its service call with 201
\* (CreateTodo), 200 (GetTodo, ListTodos, UpdateTodo) or 204 (DeleteTodo) when
\* the error is nil, with 404 when GetTodo, UpdateTodo or DeleteTodo got
\* ErrNotFound, and with 500 for every other error.
C18_StatusOfOutcome ==
    [][Respond =>
          /\ resp'.op = "http"
          /\ resp'.handler =
                (CASE resp.op = "Create" -> "CreateTodo"
                   [] resp.op = "GetByID" -> "GetTodo"
                   [] resp.op = "List" -> "ListTodos"
                   [] resp.op = "Update" -> "UpdateTodo"
                   [] resp.op = "Delete" -> "DeleteTodo")
          /\ resp'.status =
                (IF resp.err = NilErr
                 THEN (CASE resp.op = "Create" -> 201
                         [] resp.op \in {"GetByID", "List", "Update"} -> 200
                         [] resp.op = "Delete" -> 204)
                 ELSE IF resp.err = ErrNotFound
                         /\ resp.op \in {"GetByID", "Update", "Delete"}
                 THEN 404
                 ELSE 500)]_vars

\* DeleteTodo has answered 404 for an id that a DeleteTodo before it removed.
C18_Witness ==
    /\ resp.op = "http"
    /\ resp.handler = "DeleteTodo"
    /\ resp.status = 404
    /\ deletedOk # {}
    /\ todos = {}

\* C19: a repository call whose context the caller cancels returns an error
\* of a kind of its own, and its handler answers it otherwise than it answers
\* a failure of the store, which is with 500 and "internal_error".
C19_CancellationToldApart ==
    [][(Respond /\ ErrorsIs(resp.err, ContextCanceled)) =>
          /\ ~ErrorsIs(resp.err, StoreError)
          /\ ~(/\ resp'.status = 500
               /\ resp'.body.error = "internal_error")]_vars

\* C20: whatever requests the handlers have bound and passed on, every row of
\* the table has a title of 1 to 255 characters and a description of at most
\* 1000, and no Update is on its way to its UPDATE statement with the title
\* "" (UpdateBodies has a body with that title; UpdateTodo answers it 400).
C20_StoredTitleAndDescription ==
    /\ \A r \in todos :
          /\ StrLen(r.title) >= 1
          /\ StrLen(r.title) <= 255
          /\ StrLen(r.description) <= 1000
    /\ pc["p1"] = "Update_exec" => frame["p1"].req.title # Present("")

\* A row that an UpdateTodo has given the title "b" is in the table, and an
\* UpdateTodo with the title "" has been answered 400: min failed on Title.
C20_Witness ==
    /\ resp.op = "http"
    /\ resp.handler = "UpdateTodo"
    /\ resp.status = 400
    /\ resp.body.error = "validation_error"
    /\ resp.body.message = <<Failed("Title", "min")>>
    /\ \E r \in todos : r.title = "b" /\ r.updated_at > r.created_at

\* The bodies of C21 that do not bind: malformed JSON, and (for CreateTodo) an
\* object without title.
MalformedJson == [syntax |-> "invalid"]
WithoutTitle == [title |-> <<>>, description |-> <<>>, completed |-> <<>>]

\* The handler answers 400 and nothing but the answer changes: no repository
\* call has started (the service has not been invoked) and the table is as
\* it was.
Answered400 ==
    /\ resp'.op = "http"
    /\ resp'.status = 400
    /\ UNCHANGED <<todos, seq, clock, pc, frame, calls, everCreated, deletedOk>>

\* The step may be one of `handler`: it ends with an answer, with a
\* repository return or with a second statement to come that is not another
\* handler's.
MayBeStepOf(handler) ==
    \/ resp'.op = "http" /\ resp'.handler = handler
    \/ resp'.op \in DOMAIN Handlers /\ Handlers[resp'.op] = handler
    \/ /\ resp'.op = "none"
       /\ pc'["p1"] # "List_query"
       /\ pc'["p1"] = "Update_exec" => handler = "UpdateTodo"

\* C21: CreateTodo with a body that is malformed JSON or has no title,
\* UpdateTodo with a body that is malformed JSON, and GetTodo, UpdateTodo and
\* DeleteTodo with an id "x" that is no integer answer 400 without a call of
\* the service, and the store stays as it is (a step that is not such an
\* answer is the step of none of these requests); and no answer 400 ever
\* comes with a change of the store or a repository call.
C21_BadRequestNotPassedOn ==
    [][/\ (resp'.op = "http" /\ resp'.status = 400) => Answered400
       /\ \/ Answered400
          \/ /\ MayBeStepOf("CreateTodo") =>
                   \A out \in ApiOutcomes :
                      /\ ~CreateTodo(MalformedJson, out)
                      /\ ~CreateTodo(WithoutTitle, out)
             /\ MayBeStepOf("GetTodo") =>
                   \A out \in ApiOutcomes : ~GetTodo("x", out)
             /\ MayBeStepOf("DeleteTodo") =>
                   \A out \in ApiOutcomes : ~DeleteTodo("x", out)
             /\ MayBeStepOf("UpdateTodo") =>
                   \A out \in ApiOutcomes :
                      /\ \A param \in IdParams :
                            ~UpdateTodo(param, MalformedJson, out)
                      /\ \A body \in UpdateBodies :
                            ~UpdateTodo("x", body, out)]_vars

\* With a row in the table, GetTodo, UpdateTodo or DeleteTodo has answered
\* "invalid_id" with 400.
C21_Witness ==
    /\ todos # {}
    /\ resp.op = "http"
    /\ resp.status = 400
    /\ resp.body.error = "invalid_id"
    /\ resp.handler = "DeleteTodo"

C23_HealthAnswers ==
    [][/\ Health("ok") =>
             resp'.status = 200 /\ resp'.body = [status |-> "ok", database |-> "ok"]
       /\ \A out \in ApiOutcomes \ {"ok"} :
             Health(out) =>
                /\ resp'.status = 503
                /\ resp'.body = [status |-> "degraded", database |-> "error"]
       /\ (resp'.op = "http" /\ resp'.handler = "Health") =>
             <<resp'.status, resp'.body.status, resp'.body.database>> \in
                {<<200, "ok", "ok">>, <<503, "degraded", "error">>}]_vars

\* With a row in the table, the health handler has answered 503 after a
\* failed ping.
C23_Witness ==
    /\ todos # {}
    /\ resp.op = "http"
    /\ resp.handler = "Health"
    /\ resp.status = 503

\* C24: a List that succeeds returns no more records than the total it
\* reports, and with a total of 0 it returns the empty sequence, also when
\* other callers create and delete rows while it runs.
C24_ListCountAndPageAgree ==
    (resp.op = "List" /\ resp.err = NilErr) =>
       /\ Len(resp.todos) <= resp.total
       /\ resp.total = 0 => resp.todos = <<>>

\* The fields an UpdateTodoRequest supplies.
Supplied(req) == {c \in {"title", "description", "completed"} : req[c] # Absent}

\* C25: of two Updates of one existing id that are in flight together and
\* supply disjoint sets of fields, the one whose statement runs first succeeds
\* and changes its own fields only; the one whose statement runs next succeeds
\* too and leaves a row with its own fields at its values and every other
\* field as the first returned it. So the row carries both changes, and
\* neither writes back what it read for a field it did not supply.
C25_DisjointUpdatesBothApply ==
    [][\A p \in Procs :
          \A q \in Procs \ {p} :
             /\ ( /\ pc[p] = "Update_exec"
                  /\ pc[q] = "Update_exec"
                  /\ frame[p].id = frame[q].id
                  /\ Supplied(frame[p].req) \cap Supplied(frame[q].req) = {}
                  /\ UpdateExec(p, "ok") ) =>
                   LET old == ScanRow(SelectById(todos, frame[p].id))
                       new == ScanRow(SelectById(todos', frame[p].id))
                   IN /\ resp'.err = NilErr
                      /\ SelectById(todos, frame[p].id) # {}
                      /\ \A c \in Supplied(frame[p].req) :
                            new[c] = frame[p].req[c][1]
                      /\ \A c \in Supplied(frame[q].req) : new[c] = old[c]
             /\ ( /\ pc[q] = "Update_exec"
                  /\ pc[p] = "idle"
                  /\ resp.op = "Update"
                  /\ resp.err = NilErr
                  /\ resp.id = frame[q].id
                  /\ UpdateExec(q, "ok") ) =>
                   LET first == resp.todo[1]
                       new == ScanRow(SelectById(todos', frame[q].id))
                   IN /\ resp'.err = NilErr
                      /\ \A c \in Supplied(frame[q].req) :
                            new[c] = frame[q].req[c][1]
                      /\ \A c \in {"title", "description", "completed"}
                                  \ Supplied(frame[q].req) :
                            new[c] = first[c]]_vars

\* Two Updates of the row of the Create with title "a" were in flight
\* together, one with completed = TRUE only and one with the title "b" only.
\* The first has set completed, left the title as it was and returned; the
\* other has its statement still to come.
C25_Witness ==
    /\ calls = 3
    /\ pc["p1"] = "idle"
    /\ pc["p2"] = "Update_exec"
    /\ frame["p2"].req = [EmptyUpdateRequest EXCEPT !.title = Present("b")]
    /\ resp.op = "Update"
    /\ resp.err = NilErr
    /\ resp.id = frame["p2"].id
    /\ resp.todo[1].title = "a"
    /\ resp.todo[1].description = ""
    /\ resp.todo[1].completed = TRUE
    /\ todos = {resp.todo[1]}

\* C26: a repository operation that returns an error (not found, a failure
\* of the store, a cancellation) has made no change to the table: the step
\* that ends with the error return leaves every row of the table as it was.
C26_FailedOperationChangesNothing ==
    [][(resp'.op \in DOMAIN Handlers /\ resp'.err # NilErr) =>
          UNCHANGED todos]_vars

\* C27: for every page >= 1 that an int holds and every pageSize in 1..100,
\* the offset List computes is (page - 1) * pageSize and is not negative.
C27_OffsetDoesNotWrap ==
    [][\A page \in PagingPageArgs, pageSize \in PagingPageSizeArgs,
          completed \in Opt(BOOLEAN) :
          ListCount("p1", page, pageSize, completed, "ok") =>
             /\ frame'["p1"].offset >= 0
             /\ frame'["p1"].offset = (page - 1) * pageSize]_vars

\* C28: for every total >= 0 and every pageSize, also 0, negative and above
\* 100, ToTodoListResponse returns a response (it does not panic) and the
\* response has TotalPages >= 1.
C28_MapperTotalOnEveryPageSize ==
    (resp.op = "ToTodoListResponse" /\ resp.args.total >= 0) =>
       /\ resp.response # DivideByZero
       /\ resp.response.TotalPages >= 1

\* No two of the rows have the same created_at.
DistinctCreatedAt(rows) ==
    \A r1, r2 \in rows : r1.created_at = r2.created_at => r1 = r2

\* ceil(total / pageSize): the pages a caller asks for.
PagesOf(total, pageSize) == (total + pageSize - 1) \div pageSize

\* What List(k, pageSize, f) can return on the table as it is: the results
\* of its list query.
ListResults(k, pageSize, f) ==
    ListQueryResults(todos, f, NormPageSize(pageSize), Offset(k, pageSize))

RECURSIVE Concatenation(_, _)
Concatenation(pages, k) ==
    IF k = 0 THEN <<>> ELSE Concatenation(pages, k - 1) \o pages[k]

\* C29: on a table that no write touches, whose matching rows differ in
\* created_at, each of the calls List(1, pageSize, f), ..., List(last,
\* pageSize, f), last = ceil(total / pageSize), has one possible result, and
\* the List in progress returns the one of its page; those results, one
\* after the other, are the matching rows, each once, newest created_at
\* first, and every page but the last has pageSize rows.
C29_PagesMakeTheListing ==
    [][(/\ ListQuery("p1", "ok")
        /\ DistinctCreatedAt(FilteredRows(frame["p1"].completed))) =>
          LET f == frame["p1"].completed
              ps == frame["p1"].pageSize
              last == PagesOf(frame["p1"].total, ps)
              pages == [k \in 1 .. last |->
                           CHOOSE page \in ListResults(k, ps, f) : TRUE]
              all == Concatenation(pages, last)
          IN /\ \A k \in 1 .. last : ListResults(k, ps, f) = {pages[k]}
             /\ \A k \in 1 .. last :
                   frame["p1"].offset = (k - 1) * ps => resp'.todos = pages[k]
             /\ Len(all) = Cardinality(FilteredRows(f))
             /\ {all[i] : i \in 1 .. Len(all)} = FilteredRows(f)
             /\ \A i, j \in 1 .. Len(all) :
                   i < j => all[i].created_at > all[j].created_at
             /\ \A k \in 1 .. last - 1 : Len(pages[k]) = ps]_vars

\* A List of three rows that differ in created_at has returned its last page,
\* which is not the first: the oldest row alone.
C29_Witness ==
    /\ resp.op = "List"
    /\ resp.err = NilErr
    /\ resp.completed = Absent
    /\ resp.total = 3
    /\ Cardinality(todos) = 3
    /\ DistinctCreatedAt(todos)
    /\ Len(resp.todos) = 1
    /\ \A r \in todos : r.created_at >= resp.todos[1].created_at

\* The filter a value of ?completed= stands for: none, TRUE for "true", FALSE
\* for every other string that is not empty.
FilterOfQuery(completedQ) ==
    IF completedQ \in {Absent, Present("")} THEN Absent
    ELSE IF completedQ = Present("true") THEN Present(TRUE)
    ELSE Present(FALSE)

\* C30: ListTodos calls the service without a filter when the request has no
\* completed parameter or an empty one, with the filter completed = TRUE for
\* the value "true", and with the filter completed = FALSE for every other
\* value ("false", "1", "TRUE", "yes"); whatever the value, it answers no 400.
C30_CompletedFilterOfQuery ==
    [][/\ (resp'.op = "http" /\ resp'.handler = "ListTodos") =>
             resp'.status # 400
       /\ pc'["p1"] = "List_query" =>
             \A completedQ \in CompletedQueries :
                \/ frame'["p1"].completed = FilterOfQuery(completedQ)
                \/ \A pageQ \in PageQueries, pageSizeQ \in PageSizeQueries :
                      ~ListTodos(pageQ, pageSizeQ, completedQ, "ok")]_vars

\* With a completed and an open row in the table, ListTodos has answered 200
\* with the open row alone: its request had a completed parameter other than
\* "true".
C30_Witness ==
    /\ resp.op = "http"
    /\ resp.handler = "ListTodos"
    /\ resp.status = 200
    /\ Cardinality(todos) = 2
    /\ Len(resp.body.todos) = 1
    /\ resp.body.total = 1
    /\ resp.body.todos[1].completed = FALSE

====
